---------------------------- MODULE Spec2Model ----------------------------
(***************************************************************************)
(* Model of BayesianModel.py: the BayesianRBFRegression fit/predict        *)
(* life cycle, the MAPE metric, the per-dataset CSV loader with its        *)
(* fit-once scaler, and the 10-fold cross-validation driver.               *)
(*                                                                         *)
(* Numeric results of the Gaussian-process library (MAP estimate,          *)
(* posterior samples, RMSE/MAE values) are not computed: a metric entry    *)
(* is tagged with the fold that produced it.  Library calls that can fail  *)
(* are modelled with every outcome they can produce.                       *)
(***************************************************************************)
EXTENDS Integers, Sequences, FiniteSets, TLC

VARIABLES
    build,        \* scikit-learn release line the script runs on
    \* ---- one BayesianRBFRegression object driven by arbitrary calls
    inst,         \* the object: its attributes and call counters
    predOut,      \* outcomes of the predict calls made on it, in call order
    \* ---- mean_absolute_percentage_error as a function call
    y_true, y_pred, mapeOut,
    \* ---- read_csv calls sharing one scaler object
    scaler,       \* MinMaxScaler state (data_min_/data_max_ when fitted)
    fitLog,       \* history: one entry per completed scaler.fit
    callLog,      \* history: the calls on known paths that read their file
    last,         \* record of the most recent read_csv call
    seeds,        \* seed most recently returned for each known path (0: none)
    \* ---- the __main__ driver
    pc, exc, file_path, csv, X_, y_, seed, kf, k, train_index, test_index,
    splits, instances, rmse_list, mae_list, mape_list, printed

vars == <<build, inst, predOut, y_true, y_pred, mapeOut, scaler, fitLog,
          callLog, last, seeds, pc, exc, file_path, csv, X_, y_, seed, kf, k,
          train_index, test_index, splits, instances, rmse_list, mae_list,
          mape_list, printed>>

modelVars  == <<inst, predOut>>
mapeVars   == <<y_true, y_pred, mapeOut>>
loaderVars == <<scaler, fitLog, callLog, last, seeds>>
driverVars == <<pc, exc, file_path, csv, X_, y_, seed, kf, k, train_index,
                test_index, splits, instances, rmse_list, mae_list,
                mape_list, printed>>

-----------------------------------------------------------------------------
(* Bounds of the model *)
MaxCalls      == 3   \* fit/predict calls on the single object
MaxLen        == 3   \* length of the sequences given to MAPE
MaxRows       == 2   \* rows of a CSV file given to a read_csv call
MaxLoadCalls  == 3   \* read_csv calls sharing the scaler
MaxDriverRows == 12  \* rows of the CSV file the driver loads
MaxBad        == 2   \* rows of that file with error rate >= 5

(* Program constants *)
ErrorLimit  == 5     \* df["Error %"] < 5
NSplits     == 10    \* KFold(n_splits=10, ...)
SeedA       == 42    \* APIM  _seed
SeedB       == 65    \* Ballerina _seed
SeedS       == 42    \* Springboot _seed
ApimFeature == 23    \* APIM feature_idx (a single column position)
BalLabel    == 9     \* Ballerina label_idx
SprLabel    == 5     \* Springboot label_idx

APIM       == "Datasets/APIM_Dataset.csv"
Ballerina  == "Datasets/Ballerina_Dataset.csv"
Springboot == "Datasets/Springboot_Dataset.csv"
Other      == "Datasets/Other.csv"
KnownPaths == {APIM, Ballerina, Springboot}
Paths      == KnownPaths \cup {Other}

(* scikit-learn release lines that differ on this script:                  *)
(*   "sk018": a 1-D array given to the scaler is accepted as the samples   *)
(*            of one feature (DeprecationWarning), and transform does its  *)
(*            arithmetic without comparing feature counts;                 *)
(*   "sk019": a 1-D array raises ValueError;                               *)
(*   "sk024": as sk019, and KFold(random_state=.., shuffle=False) raises.  *)
Builds == {"sk018", "sk019", "sk024"}

-----------------------------------------------------------------------------
(* Small helpers *)
SetMin(S) == CHOOSE x \in S : \A y \in S : x <= y
SetMax(S) == CHOOSE x \in S : \A y \in S : x >= y
Abs(x) == IF x < 0 THEN -x ELSE x
Range(s) == {s[i] : i \in DOMAIN s}

RECURSIVE SeqSum(_)
SeqSum(s) == IF s = <<>> THEN 0 ELSE Head(s) + SeqSum(Tail(s))

RECURSIVE SeqProd(_)
SeqProd(s) == IF s = <<>> THEN 1 ELSE Head(s) * SeqProd(Tail(s))

(* the elements of s at the positions in idx, in increasing position order *)
RECURSIVE Take(_, _, _)
Take(s, idx, i) ==
    IF i > Len(s) THEN <<>>
    ELSE IF i \in idx THEN <<s[i]>> \o Take(s, idx, i + 1)
    ELSE Take(s, idx, i + 1)

-----------------------------------------------------------------------------
(* CSV files.  A row carries its identity, its error-rate cell and a       *)
(* payload v; the numeric cell of row r in column c is Cell(r, c).         *)
NoFile == [exists |-> FALSE, rows |-> <<>>]

MkRow(i, bad) ==
    [id  |-> i,
     err |-> IF bad THEN ErrorLimit + (i % 2) ELSE i % ErrorLimit,
     v   |-> (3 * i) % 4]

Tables(maxRows, maxBad) ==
    { [i \in 1..n |-> MkRow(i, i \in B)] :
        <<n, B>> \in { p \in (0..maxRows) \X SUBSET (1..maxRows) :
                          /\ p[2] \subseteq 1..p[1]
                          /\ Cardinality(p[2]) <= maxBad } }

Files(maxRows, maxBad) ==
    {[exists |-> TRUE, rows |-> t] : t \in Tables(maxRows, maxBad)}
        \cup {NoFile}

Cell(r, c) == r.v + c


-----------------------------------------------------------------------------
(* MinMaxScaler *)
Unfitted == [fitted |-> FALSE, data_min |-> <<>>, data_max |-> <<>>]

(* hasattr(scaler, "data_max_") is false: the guard of scaler.fit.         *)
(* (NeedsFitAlways is the faulty variant that fits on every call.)         *)
NeedsFitAlways(sc) == TRUE
NeedsFit(sc) == ~sc.fitted

(* Input validation of fit and transform.  raw is the selected data, a     *)
(* sequence of [id, cells]; oneD says it is a 1-D Series (a single column  *)
(* position was given to iloc), held as one cell per row.  At least one    *)
(* sample is required, and a 1-D input is an error from sk019 on.          *)
CheckArray(b, raw, oneD) ==
    IF Len(raw) = 0 \/ (oneD /\ b # "sk018") THEN [ok |-> FALSE, X |-> <<>>]
    ELSE [ok |-> TRUE,
          X  |-> [i \in 1..Len(raw) |->
                    [ids |-> {raw[i].id}, cells |-> raw[i].cells]]]

NFeatures(X) == Len(X[1].cells)

(* data_min_ and data_max_: np.min and np.max over axis 0 *)
ScalerFit(X) ==
    [fitted   |-> TRUE,
     data_min |-> [j \in 1..NFeatures(X) |->
                     SetMin({X[i].cells[j] : i \in 1..Len(X)})],
     data_max |-> [j \in 1..NFeatures(X) |->
                     SetMax({X[i].cells[j] : i \in 1..Len(X)})]]

(* X *= scale_; X += min_ follows numpy broadcasting: the feature counts   *)
(* match, or the scaler has one feature, or (1-D X) the scaler has one     *)
(* entry per element of X.  A scaler of one feature only arises from a     *)
(* 1-D fit, that is on sk018.                                              *)
TransformOK(b, sc, X, oneD) ==
    \/ Len(sc.data_min) = NFeatures(X)
    \/ b = "sk018" /\ Len(sc.data_min) = 1
    \/ oneD /\ Len(sc.data_min) = Len(X)

(* (x - data_min) / (data_max - data_min), a zero range taken as 1, as     *)
(* the fraction num/den; c is the scaler entry that meets the cell         *)
ScaledCell(sc, c, x) ==
    LET e  == IF Len(sc.data_min) = 1 THEN 1 ELSE c
        lo == sc.data_min[e]
        hi == sc.data_max[e]
    IN  [num |-> x - lo, den |-> IF hi = lo THEN 1 ELSE hi - lo]

ScalerTransform(sc, X, oneD) ==
    [i \in 1..Len(X) |->
        [ids   |-> X[i].ids,
         cells |-> [j \in 1..NFeatures(X) |->
                       ScaledCell(sc, IF oneD THEN i ELSE j, X[i].cells[j])]]]

-----------------------------------------------------------------------------
(* read_csv *)

(* df.loc[df[<error-rate column>] < 5]                                     *)
(* (KeepAtLimit is the faulty variant that compares with <=.)              *)
KeepAtLimit(r) == r.err <= ErrorLimit
Keep(r) == r.err < ErrorLimit

FilterRows(file) == SelectSeq(file, Keep)

(* the chain of `if path == ...` tests; "none" when all three fail         *)
(* (BranchElse is the faulty variant whose last test is an else.)          *)
BranchElse(path) ==
    IF path = APIM THEN "apim"
    ELSE IF path = Ballerina THEN "ballerina"
    ELSE "springboot"
Branch(path) ==
    IF path = APIM THEN "apim"
    ELSE IF path = Ballerina THEN "ballerina"
    ELSE IF path = Springboot THEN "springboot"
    ELSE "none"

(* the `_seed = ...` of each branch                                        *)
(* (SeedOfDistinct is the variant with a third, different seed.)           *)
SeedOfDistinct(br) ==
    IF br = "apim" THEN SeedA ELSE IF br = "ballerina" THEN SeedB ELSE SeedS + 1
SeedOf(br) ==
    IF br = "apim" THEN SeedA ELSE IF br = "ballerina" THEN SeedB ELSE SeedS

(* column positions given to df.iloc: X = df.iloc[:, feature_idx] and      *)
(* y = df.iloc[:, label_idx].  In the APIM branch feature_idx is the       *)
(* single position 23 and label_idx the list [0, 1, 2, 3].                 *)
FeatureCols(br) ==
    IF br = "apim" THEN <<ApimFeature>>
    ELSE IF br = "ballerina" THEN <<1, 3, 4, 5>>
    ELSE <<0, 1, 2, 3, 4>>
FeatureIsSeries(br) == br = "apim"
LabelCols(br) ==
    IF br = "apim" THEN <<0, 1, 2, 3>>
    ELSE IF br = "ballerina" THEN <<BalLabel>>
    ELSE <<SprLabel>>

SelectX(df, br) ==
    [i \in 1..Len(df) |->
        [id    |-> df[i].id,
         cells |-> [j \in 1..Len(FeatureCols(br)) |->
                       Cell(df[i], FeatureCols(br)[j])]]]

(* y.values.flatten(): row-major over the selected label columns *)
FlattenY(df, br) ==
    LET w == Len(LabelCols(br))
    IN  [j \in 1..(Len(df) * w) |->
            [id  |-> df[((j - 1) \div w) + 1].id,
             val |-> Cell(df[((j - 1) \div w) + 1],
                          LabelCols(br)[((j - 1) % w) + 1])]]

NoResult(outcome, sc) ==
    [outcome |-> outcome, X |-> <<>>, y |-> <<>>, seed |-> 0,
     scaler |-> sc, didFit |-> FALSE, fitIds |-> {}, kept |-> {}]

(* One call read_csv(path, scaler) with `file` the content pd.read_csv     *)
(* finds at path (NoFile: the read raises).  The result names the outcome, *)
(* the returned triple and the scaler state the call leaves behind.        *)
ReadCsv(path, file, sc, b) ==
    IF ~file.exists THEN NoResult("raise_read", sc)
    ELSE IF Branch(path) = "none" THEN NoResult("none", sc)
    ELSE
      LET br   == Branch(path)
          df   == FilterRows(file.rows)
          kept == {df[i].id : i \in 1..Len(df)}
          chk  == CheckArray(b, SelectX(df, br), FeatureIsSeries(br))
          fit  == NeedsFit(sc)
          sc2  == IF fit /\ chk.ok THEN ScalerFit(chk.X) ELSE sc
      IN  IF ~chk.ok
          THEN [NoResult(IF fit THEN "raise_fit" ELSE "raise_transform", sc)
                  EXCEPT !.kept = kept]
          ELSE IF ~TransformOK(b, sc2, chk.X, FeatureIsSeries(br))
          THEN [NoResult("raise_transform", sc2)
                  EXCEPT !.kept = kept, !.didFit = fit, !.fitIds =
                      IF fit THEN kept ELSE {}]
          ELSE [outcome |-> "return",
                X       |-> ScalerTransform(sc2, chk.X, FeatureIsSeries(br)),
                y       |-> FlattenY(df, br),
                seed    |-> SeedOf(br),
                scaler  |-> sc2,
                didFit  |-> fit,
                fitIds  |-> IF fit THEN kept ELSE {},
                kept    |-> kept]

-----------------------------------------------------------------------------
(* class BayesianRBFRegression *)

(* an object as constructed: no attribute set.  fitCalls, fitsDone,        *)
(* predCalls, fitX and predX are history of the calls made on it.          *)
NewInstance ==
    [attrs |-> {}, fitCalls |-> 0, fitsDone |-> 0, predCalls |-> 0,
     fitX |-> <<>>, predX |-> <<>>]

(* How far a fit call gets:                                                *)
(*   "raise_cov": `with pm.Model() as self.model` is entered, then the     *)
(*                priors or the covariance (X.shape[1]) raise;             *)
(*   "raise_map": self.gp is set, then marginal_likelihood or find_MAP     *)
(*                raises;                                                  *)
(*   "ok":        self.map_trace is set and fit returns.                   *)
FitOutcomes == {"ok", "raise_cov", "raise_map"}

FitAttrs(out) ==
    IF out = "raise_cov" THEN {"model"}
    ELSE IF out = "raise_map" THEN {"model", "gp"}
    ELSE {"model", "gp", "map_trace"}

Fit(in, X, out) ==
    [in EXCEPT !.attrs    = @ \cup FitAttrs(out),
               !.fitCalls = @ + 1,
               !.fitsDone = IF out = "ok" THEN @ + 1 ELSE @,
               !.fitX     = X]

(* hasattr(self, 'model')                                                  *)
(* (HasModelAlways is the faulty variant without the test.)                *)
HasModelAlways(in) == TRUE
HasModel(in) == "model" \in in.attrs

(* What a predict call does; libRaises says gp.conditional or sample_ppc   *)
(* raises.  "train_first" is AttributeError("train the model first"),      *)
(* "attr_error" the AttributeError of reading an attribute never set.      *)
PredictKind(in, with_error, libRaises) ==
    IF ~HasModel(in) THEN "train_first"
    ELSE IF "gp" \notin in.attrs THEN "attr_error"
    ELSE IF libRaises THEN "lib_error"
    ELSE IF "map_trace" \notin in.attrs THEN "attr_error"
    ELSE IF with_error THEN "y_pred_uncer"
    ELSE "y_pred"

Predict(in, X) == [in EXCEPT !.predCalls = @ + 1, !.predX = X]

PredictionKinds == {"y_pred_uncer", "y_pred"}

NoPred == <<>>

-----------------------------------------------------------------------------
(* mean_absolute_percentage_error *)

(* numpy broadcasting of two 1-D arrays: equal lengths, or one of length 1 *)
Broadcastable(a, b) == Len(a) = Len(b) \/ Len(a) = 1 \/ Len(b) = 1
BroadLen(a, b) ==
    IF Len(a) = Len(b) THEN Len(a) ELSE IF Len(a) = 1 THEN Len(b) ELSE Len(a)
At(s, i) == IF Len(s) = 1 THEN s[1] ELSE s[i]

(* IEEE class of (t - p) / t                                               *)
(* (QuotKindGuarded is the variant that guards the division.)              *)
QuotKindGuarded(t, p) == "fin"
QuotKind(t, p) ==
    IF t # 0 THEN "fin" ELSE IF t - p = 0 THEN "nan" ELSE "inf"

NotCalled == [kind |-> "none", num |-> 0, den |-> 1]

(* np.mean(np.abs((y_true - y_pred) / y_true)) * 100 as the exact fraction *)
(* num/den when every quotient is finite, else the IEEE class of the mean  *)
Mape(yt, yp) ==
    IF ~Broadcastable(yt, yp) THEN [kind |-> "raise", num |-> 0, den |-> 1]
    ELSE
      LET n     == BroadLen(yt, yp)
          kinds == {QuotKind(At(yt, i), At(yp, i)) : i \in 1..n}
          P     == SeqProd([i \in 1..n |->
                       IF At(yt, i) = 0 THEN 1 ELSE Abs(At(yt, i))])
          terms == [i \in 1..n |->
                       IF At(yt, i) = 0 THEN 0
                       ELSE Abs(At(yt, i) - At(yp, i)) * (P \div Abs(At(yt, i)))]
      IN  IF n = 0 \/ "nan" \in kinds THEN [kind |-> "nan", num |-> 0, den |-> 1]
          ELSE IF "inf" \in kinds THEN [kind |-> "inf", num |-> 0, den |-> 1]
          ELSE [kind |-> "finite", num |-> 100 * SeqSum(terms), den |-> n * P]

-----------------------------------------------------------------------------
(* sklearn.utils.shuffle and KFold(n_splits=10, shuffle=False) *)

(* The permutation a seed selects is the generator's; it is modelled by a  *)
(* rotation by the seed, applied alike to every array shuffled together.   *)
Shuffle(s, sd) ==
    [i \in 1..Len(s) |-> s[((i - 1 + sd) % Len(s)) + 1]]

(* KFold._iter_test_indices: the first n % n_splits folds get one more     *)
(* (FoldSizeFloor is the faulty variant that drops the remainder.)         *)
FoldSizeFloor(n, i) == n \div NSplits
FoldSize(n, i) == (n \div NSplits) + (IF i <= n % NSplits THEN 1 ELSE 0)

FoldStart(n, i) == SeqSum([j \in 1..(i - 1) |-> FoldSize(n, j)])
TestIdx(n, i)  == (FoldStart(n, i) + 1)..(FoldStart(n, i) + FoldSize(n, i))
TrainIdx(n, i) == (1..n) \ TestIdx(n, i)

(* _X[index]: the rows at the given positions, by their source-row ids *)
RowsAt(X, idx) == Take([i \in 1..Len(X) |-> X[i].ids], idx, 1)

-----------------------------------------------------------------------------
(* State of each part before it is used *)
NoCall == [n |-> 0, path |-> "", file |-> NoFile, before |-> Unfitted,
           res |-> NoResult("none", Unfitted)]

ModelInit  == inst = NewInstance /\ predOut = NoPred
MapeIdle   == y_true = <<>> /\ y_pred = <<>> /\ mapeOut = NotCalled
(* scaler = MinMaxScaler(feature_range=(0, 1)) *)
LoaderInit ==
    /\ scaler = Unfitted
    /\ fitLog = <<>>
    /\ callLog = <<>>
    /\ last = NoCall
    /\ seeds = [p \in KnownPaths |-> 0]
DriverIdle ==
    /\ pc = "idle" /\ exc = "" /\ file_path = "" /\ csv = NoFile
    /\ X_ = <<>> /\ y_ = <<>> /\ seed = 0 /\ kf = FALSE /\ k = 0
    /\ train_index = {} /\ test_index = {} /\ splits = <<>>
    /\ instances = <<>>
    /\ rmse_list = <<>> /\ mae_list = <<>> /\ mape_list = <<>>
    /\ printed = <<>>

-----------------------------------------------------------------------------
(* read_csv(path, scaler) on the shared scaler *)
LoadStep(path, file) ==
    LET res == ReadCsv(path, file, scaler, build)
    IN  /\ scaler' = res.scaler
        /\ callLog' = IF path \in KnownPaths /\ file.exists
                      THEN Append(callLog, [path |-> path,
                                            outcome |-> res.outcome])
                      ELSE callLog
        /\ fitLog' = IF res.didFit
                     THEN Append(fitLog, [call |-> Len(callLog'),
                                          ids  |-> res.fitIds])
                     ELSE fitLog
        /\ last' = [n |-> last.n + 1, path |-> path, file |-> file,
                    before |-> scaler, res |-> res]
        /\ seeds' = IF res.outcome = "return" /\ path \in KnownPaths
                    THEN [seeds EXCEPT ![path] = res.seed]
                    ELSE seeds

LoaderFiles == Files(MaxRows, MaxRows)

CallReadCsv ==
    /\ last.n < MaxLoadCalls
    /\ \E path \in Paths, file \in LoaderFiles : LoadStep(path, file)
    /\ UNCHANGED <<build, modelVars, mapeVars, driverVars>>

LoaderNext == CallReadCsv

InitLoader ==
    /\ build \in Builds
    /\ ModelInit /\ MapeIdle /\ LoaderInit /\ DriverIdle

SpecLoader == InitLoader /\ [][LoaderNext]_vars

-----------------------------------------------------------------------------
(* fit and predict called in any order on one object *)
ModelInputs == {<<>>, <<{1}>>, <<{1}, {2}>>}

CallFit ==
    /\ inst.fitCalls + inst.predCalls < MaxCalls
    /\ \E X \in ModelInputs, out \in FitOutcomes : inst' = Fit(inst, X, out)
    /\ UNCHANGED <<build, predOut, mapeVars, loaderVars, driverVars>>

CallPredict ==
    /\ inst.fitCalls + inst.predCalls < MaxCalls
    /\ \E X \in ModelInputs, with_error \in BOOLEAN, libRaises \in BOOLEAN :
          /\ inst' = Predict(inst, X)
          /\ predOut' = Append(predOut,
               [kind |-> PredictKind(inst, with_error, libRaises),
                n |-> Len(X), with_error |-> with_error,
                fitCallsBefore |-> inst.fitCalls,
                fitsDoneBefore |-> inst.fitsDone])
    /\ UNCHANGED <<build, mapeVars, loaderVars, driverVars>>

ModelNext == CallFit \/ CallPredict

InitModel ==
    /\ build = "sk019"
    /\ ModelInit /\ MapeIdle /\ LoaderInit /\ DriverIdle

SpecModel == InitModel /\ [][ModelNext]_vars

-----------------------------------------------------------------------------
(* mean_absolute_percentage_error(y_true, y_pred) on bounded inputs *)
MapeVals == {-1, 0, 1, 2}
MapeSeqs == UNION {[1..n -> MapeVals] : n \in 0..MaxLen}

CallMape ==
    /\ mapeOut = NotCalled
    /\ mapeOut' = Mape(y_true, y_pred)
    /\ UNCHANGED <<build, modelVars, y_true, y_pred, loaderVars, driverVars>>

MapeNext == CallMape

InitMape ==
    /\ build = "sk019"
    /\ y_true \in MapeSeqs /\ y_pred \in MapeSeqs /\ mapeOut = NotCalled
    /\ ModelInit /\ LoaderInit /\ DriverIdle

SpecMape == InitMape /\ [][MapeNext]_vars

-----------------------------------------------------------------------------
(* __main__ *)

Raise(what) == pc' = "raised" /\ exc' = what

(* _X, _y, seed = read_csv(file_path, scaler) *)
DriverReadCsv ==
    /\ pc = "start"
    /\ LoadStep(file_path, csv)
    /\ LET res == ReadCsv(file_path, csv, scaler, build)
       IN  IF res.outcome = "return"
           THEN /\ X_' = res.X /\ y_' = res.y /\ seed' = res.seed
                /\ pc' = "loaded" /\ exc' = exc
           ELSE /\ Raise(IF res.outcome = "none" THEN "TypeError"
                         ELSE res.outcome)
                /\ UNCHANGED <<X_, y_, seed>>
    /\ UNCHANGED <<build, modelVars, mapeVars, file_path, csv, kf, k,
                   train_index, test_index, splits, instances, rmse_list,
                   mae_list, mape_list, printed>>

(* _X, _y = shuffle(_X, _y, random_state=seed): arrays of different        *)
(* lengths are refused                                                     *)
DriverShuffle ==
    /\ pc = "loaded"
    /\ IF Len(X_) # Len(y_)
       THEN Raise("ValueError") /\ UNCHANGED <<X_, y_>>
       ELSE /\ X_' = Shuffle(X_, seed) /\ y_' = Shuffle(y_, seed)
            /\ pc' = "shuffled" /\ exc' = exc
    /\ UNCHANGED <<build, modelVars, mapeVars, loaderVars, file_path, csv,
                   seed, kf, k, train_index, test_index, splits, instances,
                   rmse_list, mae_list, mape_list, printed>>

(* kf = KFold(n_splits=10, random_state=seed, shuffle=False) *)
DriverKFold ==
    /\ pc = "shuffled"
    /\ IF build = "sk024"
       THEN Raise("ValueError") /\ UNCHANGED <<kf, k>>
       ELSE kf' = TRUE /\ k' = 1 /\ pc' = "loop" /\ exc' = exc
    /\ UNCHANGED <<build, modelVars, mapeVars, loaderVars, file_path, csv,
                   X_, y_, seed, train_index, test_index, splits, instances,
                   rmse_list, mae_list, mape_list, printed>>

(* the for loop has taken every split                                      *)
(* (LoopDoneEarly is the faulty variant that leaves after one fold.)       *)
LoopDoneEarly(i) == i > 1
LoopDone(i) == i > NSplits

(* for train_index, test_index in kf.split(_X): the next split, the end    *)
(* of the loop, or split's refusal of fewer samples than folds             *)
DriverNextFold ==
    /\ pc = "loop"
    /\ IF Len(X_) < NSplits
       THEN /\ Raise("ValueError")
            /\ UNCHANGED <<train_index, test_index, splits>>
       ELSE IF LoopDone(k)
       THEN /\ pc' = "report" /\ exc' = exc
            /\ UNCHANGED <<train_index, test_index, splits>>
       ELSE /\ train_index' = TrainIdx(Len(X_), k)
            /\ test_index' = TestIdx(Len(X_), k)
            /\ splits' = Append(splits, [train |-> train_index',
                                         test  |-> test_index'])
            /\ pc' = "eval_fit" /\ exc' = exc
    /\ UNCHANGED <<build, modelVars, mapeVars, loaderVars, file_path, csv,
                   X_, y_, seed, kf, k, instances, rmse_list, mae_list,
                   mape_list, printed>>

(* lr = BayesianRBFRegression(): the object eval_bayesian_rbf works on,    *)
(* given the objects of the earlier folds                                  *)
(* (EvalInstanceShared is the faulty variant that reuses one object.)      *)
EvalInstanceShared(insts) ==
    IF insts = <<>> THEN NewInstance ELSE insts[Len(insts)].obj
EvalInstance(insts) == NewInstance

(* eval_bayesian_rbf: lr = BayesianRBFRegression(); lr.fit(X, y) *)
EvalFit ==
    /\ pc = "eval_fit"
    /\ \E out \in FitOutcomes :
          /\ instances' = Append(instances,
                 [fold |-> k,
                  obj  |-> Fit(EvalInstance(instances),
                               RowsAt(X_, train_index), out)])
          /\ IF out = "ok" THEN pc' = "eval_predict" /\ exc' = exc
             ELSE Raise(out)
    /\ UNCHANGED <<build, modelVars, mapeVars, loaderVars, file_path, csv,
                   X_, y_, seed, kf, k, train_index, test_index, splits,
                   rmse_list, mae_list, mape_list, printed>>

(* eval_bayesian_rbf: pred_y, error = lr.predict(eval_X, True) *)
EvalPredict ==
    /\ pc = "eval_predict"
    /\ \E libRaises \in BOOLEAN :
          LET cur  == instances[Len(instances)]
              kind == PredictKind(cur.obj, TRUE, libRaises)
          IN  /\ instances' = [instances EXCEPT ![Len(instances)].obj =
                                  Predict(cur.obj, RowsAt(X_, test_index))]
              /\ IF kind \in PredictionKinds
                 THEN pc' = "eval_metrics" /\ exc' = exc
                 ELSE Raise(kind)
    /\ UNCHANGED <<build, modelVars, mapeVars, loaderVars, file_path, csv,
                   X_, y_, seed, kf, k, train_index, test_index, splits,
                   rmse_list, mae_list, mape_list, printed>>

(* the metrics of the fold (mean_squared_error and mean_absolute_error     *)
(* refuse non-finite predictions) and the three appends                    *)
EvalMetrics ==
    /\ pc = "eval_metrics"
    /\ \E metricRaises \in BOOLEAN :
          IF metricRaises
          THEN /\ Raise("ValueError")
               /\ UNCHANGED <<k, rmse_list, mae_list, mape_list>>
          ELSE /\ rmse_list' = Append(rmse_list, [fold |-> k])
               /\ mae_list' = Append(mae_list, [fold |-> k])
               /\ mape_list' = Append(mape_list, [fold |-> k])
               /\ k' = k + 1
               /\ pc' = "loop" /\ exc' = exc
    /\ UNCHANGED <<build, modelVars, mapeVars, loaderVars, file_path, csv,
                   X_, y_, seed, kf, train_index, test_index, splits,
                   instances, printed>>

(* print("Bayesian RMSE : %f and MAPE :%f and MAE :%f" % (means)) *)
DriverReport ==
    /\ pc = "report"
    /\ printed' = Append(printed, [rmse |-> rmse_list, mape |-> mape_list,
                                   mae  |-> mae_list])
    /\ pc' = "done"
    /\ UNCHANGED <<build, modelVars, mapeVars, loaderVars, exc, file_path,
                   csv, X_, y_, seed, kf, k, train_index, test_index, splits,
                   instances, rmse_list, mae_list, mape_list>>

Next ==
    \/ DriverReadCsv
    \/ DriverShuffle
    \/ DriverKFold
    \/ DriverNextFold
    \/ EvalFit
    \/ EvalPredict
    \/ EvalMetrics
    \/ DriverReport

DriverFiles == Files(MaxDriverRows, MaxBad)

(* The state at `if __name__ == '__main__'`: empty metric lists, file_path *)
(* one of the three assignments the script offers (one active, two         *)
(* commented out), csv the content of that file.                           *)

Init ==
    /\ build \in Builds
    /\ ModelInit /\ MapeIdle /\ LoaderInit
    /\ pc = "start" /\ exc = ""
    /\ file_path \in KnownPaths
    /\ csv \in DriverFiles
    /\ X_ = <<>> /\ y_ = <<>> /\ seed = 0 /\ kf = FALSE /\ k = 0
    /\ train_index = {} /\ test_index = {} /\ splits = <<>>
    /\ instances = <<>>
    /\ rmse_list = <<>> /\ mae_list = <<>> /\ mape_list = <<>>
    /\ printed = <<>>

Spec == Init /\ [][Next]_vars

-----------------------------------------------------------------------------
(* Properties of the BayesianRBFRegression object (SpecModel) *)

(* C1: every predict call made on an object on which fit was never called  *)
(* raises "train the model first" and returns no prediction; a predict     *)
(* call made after a fit call has completed does not raise that error.     *)
C1_PredictNeedsFit ==
    \A i \in 1..Len(predOut) :
        /\ predOut[i].fitCallsBefore = 0 => predOut[i].kind = "train_first"
        /\ predOut[i].fitsDoneBefore > 0 => predOut[i].kind # "train_first"

(* predict raised before any fit, then fit completed, then predict         *)
(* returned a prediction                                                   *)
C1_Witness ==
    /\ Len(predOut) = 2
    /\ predOut[1].kind = "train_first" /\ predOut[1].fitCallsBefore = 0
    /\ predOut[2].kind \in PredictionKinds /\ predOut[2].fitsDoneBefore = 1

-----------------------------------------------------------------------------
(* Properties of mean_absolute_percentage_error (SpecMape) *)

(* C7: when y_true and y_pred have the same length and some element of     *)
(* y_true is zero, the call fails or its result is not finite.             *)
C7_ZeroLabelNotFinite ==
    ( /\ mapeOut # NotCalled
      /\ Len(y_true) = Len(y_pred)
      /\ \E i \in 1..Len(y_true) : y_true[i] = 0 )
    => mapeOut.kind \in {"inf", "nan", "raise"}

(* a zero label among non-zero ones, predicted exactly *)
C7_Witness ==
    /\ mapeOut # NotCalled
    /\ Len(y_true) = 3 /\ Len(y_pred) = 3
    /\ y_true[1] = 0 /\ y_pred[1] = 0
    /\ y_true[2] # 0 /\ y_true[3] # 0
    /\ mapeOut.kind = "nan"

-----------------------------------------------------------------------------
(* Properties of read_csv (SpecLoader) *)

(* ids of the rows of the last call's file that pass the error-rate filter *)
LastKept == {r.id : r \in {x \in Range(last.file.rows) : x.err < ErrorLimit}}

(* C2: on a known dataset path (file readable, at least one row passing    *)
(* the filter, scaler not yet fitted) read_csv returns one label and one   *)
(* feature row per filtered row.                                           *)
C2_OneLabelPerRow ==
    ( /\ last.n > 0
      /\ last.path \in KnownPaths
      /\ last.file.exists
      /\ ~last.before.fitted
      /\ LastKept # {} )
    => /\ last.res.outcome = "return"
       /\ Len(last.res.y) = Cardinality(LastKept)
       /\ Len(last.res.X) = Cardinality(LastKept)

(* C4 as stated: any two different known paths return different seeds.     *)
C4_SeedsDistinct ==
    \A p, q \in KnownPaths :
        (p # q /\ seeds[p] # 0 /\ seeds[q] # 0) => seeds[p] # seeds[q]

(* C4 as amended: each known path returns one fixed seed whatever the file *)
(* and the scaler state; the Ballerina seed differs from the other two,    *)
(* and the APIM and Springboot seeds are equal.                            *)
C4_SeedsFixed ==
    /\ seeds[APIM] \in {0, SeedA}
    /\ seeds[Ballerina] \in {0, SeedB}
    /\ seeds[Springboot] \in {0, SeedS}
    /\ (last.res.outcome = "return" /\ last.path \in KnownPaths)
          => last.res.seed = seeds[last.path]
    /\ \A p \in {APIM, Springboot} :
          (seeds[p] # 0 /\ seeds[Ballerina] # 0) => seeds[p] # seeds[Ballerina]
    /\ (seeds[APIM] # 0 /\ seeds[Springboot] # 0)
          => seeds[APIM] = seeds[Springboot]

(* all three known paths have returned a seed *)
C4_Witness == \A p \in KnownPaths : seeds[p] # 0

(* C6: a call with a path that is none of the three known strings returns *)
(* no triple (it returns None, or pd.read_csv raised), raises no error of  *)
(* its own and leaves the scaler as it found it.                           *)
C6_UnknownPath ==
    (last.n > 0 /\ last.path \notin KnownPaths)
    => /\ last.res.outcome \in {"none", "raise_read"}
       /\ last.res.X = <<>> /\ last.res.y = <<>> /\ last.res.seed = 0
       /\ ~last.res.didFit
       /\ scaler = last.before

(* an unknown path whose file exists and has rows passing the filter, with *)
(* the scaler still unfitted afterwards                                    *)
C6_Witness ==
    /\ last.path = Other
    /\ last.file.exists /\ LastKept # {}
    /\ last.res.outcome = "none"
    /\ ~scaler.fitted

(* C8 as stated: the scaler is fitted at most once, and by the first call  *)
(* on a known path.  Only calls whose file was read are counted, and only  *)
(* sequences without a call on the APIM path are considered.               *)
C8_FittedByFirstCall ==
    /\ Len(fitLog) <= 1
    /\ ( /\ fitLog # <<>>
         /\ \A i \in 1..Len(callLog) : callLog[i].path # APIM )
       => fitLog[1].call = 1

(* C8 as amended: the scaler is fitted at most once, by the first call     *)
(* whose scaler.fit succeeds (a call that raises before or in scaler.fit   *)
(* leaves it unfitted), on all the filtered rows of that call; a call that *)
(* finds it fitted does not fit and leaves its min/max state unchanged.    *)
C8_FitOnce ==
    /\ Len(fitLog) <= 1
    /\ scaler.fitted <=> Len(fitLog) = 1
    /\ last.n > 0 =>
         /\ last.before.fitted => (scaler = last.before /\ ~last.res.didFit)
         /\ last.res.didFit =>
              /\ ~last.before.fitted
              /\ fitLog[1].ids = LastKept /\ LastKept # {}
              /\ \A j \in 1..Len(FeatureCols(Branch(last.path))) :
                    LET col == {Cell(r, FeatureCols(Branch(last.path))[j]) :
                                  r \in {x \in Range(last.file.rows) :
                                           x.err < ErrorLimit}}
                    IN  /\ scaler.data_min[j] = SetMin(col)
                        /\ scaler.data_max[j] = SetMax(col)
         /\ (~last.before.fitted /\ ~last.res.didFit) =>
              /\ ~scaler.fitted
              /\ last.res.outcome \in {"none", "raise_read", "raise_fit"}

(* the first call raised, the second fitted the scaler, the third found it *)
(* fitted and returned                                                     *)
C8_Witness ==
    /\ last.n = 3 /\ Len(callLog) = 3
    /\ callLog[1].outcome = "raise_fit" /\ callLog[1].path # APIM
    /\ Len(fitLog) = 1 /\ fitLog[1].call = 2
    /\ last.before.fitted
    /\ last.res.outcome = "return"

-----------------------------------------------------------------------------
(* Properties of the driver (Spec) *)

(* ids of the rows of the loaded file whose error rate is 5 or more *)
BadIds == {r.id : r \in {x \in Range(csv.rows) : x.err >= ErrorLimit}}

IdsOf(rows) == UNION Range(rows)

(* C3: the splits taken so far are contiguous, pairwise disjoint test      *)
(* folds, each with the remaining rows as its training set; once the loop  *)
(* has ended there are 10 of them and every row index was tested exactly   *)
(* once and trained on exactly nine times.                                 *)
C3_TenFolds ==
    LET n == Len(X_)
    IN  /\ Len(splits) <= NSplits
        /\ \A s \in 1..Len(splits) :
              /\ splits[s].train \cap splits[s].test = {}
              /\ splits[s].train \cup splits[s].test = 1..n
              /\ splits[s].test # {}
              /\ splits[s].test = SetMin(splits[s].test)..SetMax(splits[s].test)
              /\ \A t \in 1..Len(splits) :
                    s # t => splits[s].test \cap splits[t].test = {}
        /\ splits # <<>> =>
              /\ train_index = splits[Len(splits)].train
              /\ test_index = splits[Len(splits)].test
        /\ pc \in {"report", "done"} =>
              /\ Len(splits) = NSplits
              /\ \A i \in 1..n :
                    /\ Cardinality({s \in 1..NSplits : i \in splits[s].test}) = 1
                    /\ Cardinality({s \in 1..NSplits : i \in splits[s].train})
                          = NSplits - 1

(* a finished run over a row count that 10 does not divide *)
C3_Witness ==
    /\ pc = "done"
    /\ Len(X_) % NSplits # 0
    /\ Len(splits) = NSplits

(* C5: no row with error rate >= 5 is among the rows the scaler was fitted *)
(* on, among the loaded features and labels, or among the rows given to    *)
(* fit or predict in any fold.                                             *)
C5_BadRowsExcluded ==
    /\ \A i \in 1..Len(fitLog) : fitLog[i].ids \cap BadIds = {}
    /\ IdsOf([i \in 1..Len(X_) |-> X_[i].ids]) \cap BadIds = {}
    /\ {y_[i].id : i \in 1..Len(y_)} \cap BadIds = {}
    /\ \A j \in 1..Len(instances) :
          /\ IdsOf(instances[j].obj.fitX) \cap BadIds = {}
          /\ IdsOf(instances[j].obj.predX) \cap BadIds = {}

(* a finished run over a file holding a row with error rate exactly 5 and  *)
(* one above 5                                                             *)
C5_Witness ==
    /\ pc = "done"
    /\ \E r \in Range(csv.rows) : r.err = ErrorLimit
    /\ \E r \in Range(csv.rows) : r.err > ErrorLimit
    /\ scaler.fitted

(* C9: the object of fold j is created in fold j, fitted exactly once, on  *)
(* the training rows of fold j, and predicts at most once, after its fit   *)
(* completed, on the held-out rows of fold j.                              *)
C9_FreshModelPerFold ==
    /\ Len(instances) = Len(splits) - (IF pc = "eval_fit" THEN 1 ELSE 0)
    /\ \A j \in 1..Len(instances) :
          LET o == instances[j].obj
          IN  /\ instances[j].fold = j
              /\ o.fitCalls = 1
              /\ o.predCalls <= 1
              /\ o.fitX = RowsAt(X_, splits[j].train)
              /\ o.predCalls = 1 =>
                    /\ o.fitsDone = 1
                    /\ o.predX = RowsAt(X_, splits[j].test)
              /\ pc = "done" => (o.fitsDone = 1 /\ o.predCalls = 1)

(* a finished run: ten objects, each fitted and used once *)
C9_Witness ==
    /\ pc = "done"
    /\ Len(instances) = NSplits
    /\ \A j \in 1..NSplits : instances[j].obj.predCalls = 1

(* C10: at most one report line is printed, only after the loop took all   *)
(* 10 folds, with 10 entries per metric list, the entry of fold i at       *)
(* position i; after a raise nothing is printed and nothing more runs.     *)
C10_ReportAfterAllFolds ==
    /\ Len(printed) <= 1
    /\ Len(rmse_list) = Len(mae_list) /\ Len(mae_list) = Len(mape_list)
    /\ printed # <<>> =>
          /\ pc = "done"
          /\ Len(splits) = NSplits
          /\ Len(rmse_list) = NSplits
          /\ \A i \in 1..NSplits :
                /\ rmse_list[i].fold = i
                /\ mae_list[i].fold = i
                /\ mape_list[i].fold = i
          /\ printed[1] = [rmse |-> rmse_list, mape |-> mape_list,
                           mae |-> mae_list]
    /\ pc = "done" => Len(printed) = 1
    /\ pc = "raised" => (printed = <<>> /\ exc # "" /\ ~ENABLED Next)

(* the report line has been printed *)
C10_Witness ==
    /\ Len(printed) = 1
    /\ Len(mape_list) = NSplits

=============================================================================
